---- MODULE Spec2Model ----
(***************************************************************************)
(* Model of leap.keymanager.KeyManager (src/leap/keymanager/__init__.py):  *)
(* local-then-remote key resolution, the memoized nickserver fetch, the    *)
(* upgrade check on writes and the encrypt/decrypt/sign/verify wrappers.   *)
(*                                                                         *)
(* A call is a chain of callbacks on Deferreds.  Each action is one turn   *)
(* of the reactor: the call itself up to the point where it waits for the  *)
(* store, or the answer of the store to one lookup or write together with  *)
(* the callbacks that answer fires.  The store answers the operations in   *)
(* flight in any order.  Requests to the nickserver block, so a request    *)
(* and the code around it are in one action.                               *)
(*                                                                         *)
(* Spec        put_key, put_raw_key, fetch_key and get_key, called one     *)
(*             after the other                                             *)
(* SpecUri     get_key under each of the nickserver URIs                   *)
(* SpecEncrypt encrypt and sign over imported keys, among get_key calls    *)
(*             and a decrypt call                                          *)
(* SpecDecrypt decrypt over imported keys                                  *)
(* SpecVerify  verify over imported keys                                   *)
(* SpecRound   decrypt applied to what encrypt returned, over stored keys  *)
(* SpecTypes   every operation called with a key type that is not          *)
(*             registered, among imports, gen_key, send_key, delete_key    *)
(* SpecTime    get_key calls, imports and deletions as time passes, over   *)
(*             more than one invalidation window                           *)
(* SpecPut     put_key calls that overlap                                  *)
(* SpecRaw     put_raw_key, fetch_key and put_key calls that overlap       *)
(* SpecConc    get_key calls that overlap with each other and with         *)
(*             put_key calls                                               *)
(* In all but the last three a caller starts a call when the Deferred of   *)
(* the one before has fired.  The two resolutions of an encrypt or decrypt *)
(* call run concurrently; the Deferred of the call fires at the first      *)
(* failure, and the resolution that is left then runs on beside the calls  *)
(* that follow.  Time passes in SpecTime, between and during calls.        *)
(***************************************************************************)
EXTENDS Integers, Sequences, FiniteSets, TLC

VARIABLES
    nickserver_uri,  \* self._nickserver_uri, fixed at construction
    store,           \* the scheme's local storage: <<address, private>> -> key
    cache,           \* memoized_method cache of _fetch_keys_from_server: time
    now,             \* wall clock, seconds
    calls,           \* the calls in flight and those that ended last
    dfr,             \* the Deferreds held by the memoize cache, per address
    nreq             \* nickserver requests issued so far, per address

vars == <<nickserver_uri, store, cache, now, calls, dfr, nreq>>

-----------------------------------------------------------------------------
(* Bounds *)

\* number of calls that run concurrently
MaxCalls == 2

-----------------------------------------------------------------------------
(* Values *)

\* addresses are strings, modelled as sequences of characters
A1 == <<"a", "@", "p">>
A2 == <<"b", "@", "p", "q">>
A3 == <<"c">>
A4 == <<"a", "@", "P">>
Addresses == {A1, A2, A3, A4}
\* the addresses that calls look up, except in SpecUri
Lookups == {A1, A2, A3}
\* Python None where an address is expected (sign=None, verify=None)
NoAddress == <<>>
\* the text of an exception that is not an address (e.message, uri)
Detail == <<"!">>
\* the uri argument of fetch_key, as named by KeyNotFound(uri)
UriText == <<"u">>

\* the nickserver URIs a KeyManager may be constructed with
Uris == { [scheme |-> "https", host |-> <<"p">>, port |-> 6425],
          [scheme |-> "https", host |-> <<"P">>, port |-> 6425] }

KeyIds == {"k1", "k2"}
\* the uids found on each key
Uids(id) == IF id = "k1" THEN {A1} ELSE {A1, A2, A4}

\* ValidationLevels, weakest first
Weak_Chain == 1
Provider_Trust == 2
Levels == {Weak_Chain, Provider_Trust}

\* self._wrapper_map
wrapper_map == {"OpenPGPKey"}
KeyTypes == {"OpenPGPKey", "OtherKey"}

NoKey == [none |-> TRUE]
NoData == [none |-> TRUE]

PubKey(id, level, encr, sign) ==
    [key_id |-> id, ktype |-> "OpenPGPKey", address |-> Uids(id),
     private |-> FALSE, validation |-> level, encr_used |-> encr,
     sign_used |-> sign, key_data |-> <<id, "public">>]

PrivKey(id) ==
    [key_id |-> id, ktype |-> "OpenPGPKey", address |-> Uids(id),
     private |-> TRUE, validation |-> Weak_Chain, encr_used |-> FALSE,
     sign_used |-> FALSE, key_data |-> <<id, "private">>]

\* a key of a type that is not in the wrapper map
OtherKey == [PubKey("k1", Weak_Chain, FALSE, FALSE) EXCEPT !.ktype = "OtherKey"]

\* keys a caller hands to put_key
Candidates ==
    { PubKey(id, l, FALSE, FALSE) : id \in KeyIds, l \in Levels }
      \cup { PrivKey(id) : id \in KeyIds } \cup {OtherKey}

\* ascii-armored key material
Garbage == [id |-> "garbage", secret |-> FALSE]
Raws == { [id |-> i, secret |-> s] : i \in KeyIds, s \in BOOLEAN } \cup {Garbage}

\* what the nickserver (or any URI) answers to a GET
TransportError == [kind |-> "error", status |-> 0, has |-> FALSE, raw |-> Garbage]
Http(status, has, raw) == [kind |-> "http", status |-> status, has |-> has, raw |-> raw]
Responses ==
    {TransportError, Http(404, FALSE, Garbage), Http(500, FALSE, Garbage),
     Http(200, FALSE, Garbage)} \cup { Http(200, TRUE, r) : r \in Raws }

\* results of a call: a value or the exception it failed with
Res(kind, key, arg, data, sig) ==
    [kind |-> kind, key |-> key, arg |-> arg, data |-> data, sig |-> sig]
OkNone == Res("ok", NoKey, NoAddress, NoData, "none")
OkKey(k) == Res("ok", k, NoAddress, NoData, "none")
Fail(e, arg) == Res(e, NoKey, arg, NoData, "none")

\* the cache slot of an address that was never fetched
NoTs == -1

-----------------------------------------------------------------------------
(* Module-level helpers *)

RECURSIVE Count(_, _)
Count(s, c) ==
    IF s = <<>> THEN 0
    ELSE (IF Head(s) = c THEN 1 ELSE 0) + Count(Tail(s), c)

\* index of the first occurrence of c in s (s contains c)
RECURSIVE IndexOf(_, _)
IndexOf(s, c) == IF Head(s) = c THEN 1 ELSE 1 + IndexOf(Tail(s), c)

\* Python None returned by _split_email
NoSplit == <<>>

_split_email(address) ==
    IF Count(address, "@") # 1 THEN NoSplit
    ELSE LET i == IndexOf(address, "@")
         IN <<SubSeq(address, 1, i - 1), SubSeq(address, i + 1, Len(address))>>

\* str.lower() on one character
Lower(c) == IF c = "P" THEN "p" ELSE IF c = "Q" THEN "q" ELSE c

\* urlparse(url).hostname: the host of the netloc, lower-cased, without port
_get_domain(url) == [i \in DOMAIN url.host |-> Lower(url.host[i])]

-----------------------------------------------------------------------------
(* The scheme behind self._wrapper_map[ktype] (leap.keymanager.openpgp)    *)

scheme_get_key(st, address, private) ==
    IF st[<<address, private>>] = NoKey
    THEN Fail("KeyNotFound", address)
    ELSE OkKey(st[<<address, private>>])

scheme_put_key(st, key, address) ==
    [st EXCEPT ![<<address, key.private>>] = key]

parse_ascii_key(raw) ==
    IF raw.id \notin KeyIds
    THEN [pub |-> NoKey, priv |-> NoKey]
    ELSE [pub |-> PubKey(raw.id, Weak_Chain, FALSE, FALSE),
          priv |-> IF raw.secret THEN PrivKey(raw.id) ELSE NoKey]

\* self._address, the address of the user of the KeyManager
OwnAddress == A1

\* the scheme generates a key pair bound to address and stores both halves
scheme_gen_key(st, address) ==
    [st EXCEPT ![<<address, FALSE>>] = PubKey("k1", Weak_Chain, FALSE, FALSE),
               ![<<address, TRUE>>] = PrivKey("k1")]

\* the store entries that hold key
scheme_entries(st, key) ==
    {k \in DOMAIN st : st[k] # NoKey /\ st[k].key_id = key.key_id
                                    /\ st[k].private = key.private}

\* the scheme removes key from the store
scheme_delete_key(st, key) ==
    [k \in DOMAIN st |-> IF k \in scheme_entries(st, key) THEN NoKey ELSE st[k]]

\* leap.keymanager.validation.can_upgrade
can_upgrade(new_key, old_key) ==
    IF old_key = NoKey THEN TRUE
    ELSE IF new_key.private \/ old_key.private THEN TRUE
    ELSE new_key.validation >= old_key.validation

\* the engine: ciphertexts and signatures carry the keys that made them
Plain == "m"
scheme_encrypt(data, pubkey, signkey) ==
    [plain |-> data, to |-> pubkey.key_id,
     signer |-> IF signkey = NoKey THEN "none" ELSE signkey.key_id]
scheme_decrypt_ok(ct, privkey) == privkey # NoKey /\ ct.to = privkey.key_id
scheme_decrypt_signed(ct, pubkey) ==
    pubkey # NoKey /\ ct.signer = pubkey.key_id
scheme_sign(data, privkey) ==
    [plain |-> data, to |-> "none", signer |-> privkey.key_id]
scheme_verify(sig, pubkey) == sig.signer = pubkey.key_id


-----------------------------------------------------------------------------
(* Calls.  A call record holds the arguments of the call, what it has done  *)
(* so far and, once it has ended, its result.  A call has up to two chains  *)
(* of callbacks that wait for the store, its threads: thread 1 is the call  *)
(* itself or the resolution of its public key, thread 2 the resolution of   *)
(* the private key of an encrypt or decrypt call.                           *)

\* no request was made
NoResp == [kind |-> "none", status |-> 0, has |-> FALSE, raw |-> Garbage]

\* pc: none     no chain
\*     lookup   get_key waits for its first lookup (line 352)
\*     fetch    key_not_found is about to call _fetch_keys_from_server
\*     waiting  waits for the Deferred of _fetch_keys_from_server
\*     requery  waits for the second lookup (line 347)
\*     put_read / put_write   put_key waits for the lookup of the old key
\*              (line 718) / for the write (line 712)
\*     put_done the Deferred of put_key or put_raw_key has fired with res
\*     raised   the code raised res
\*     flag_write  a callback waits for the write of the used key
\*     gen / delete  waits for the scheme's gen_key / delete_key
\*     done     the chain has ended with res
\* pc of a call: idle  no call
\*     run    the Deferred that the call returned waits
\*     done   that Deferred has fired with res, or the call raised res;
\*            chains of the call may still wait for the store
\*     left   the caller has taken the result and chains of the call
\*            still wait for the store
\* key is the key that put_key is writing, next the private key that
\* put_raw_key writes after it
Thread(pc, address, private, fetch_remote) ==
    [pc |-> pc, address |-> address, private |-> private,
     fetch_remote |-> fetch_remote, res |-> OkNone, key |-> NoKey,
     next |-> NoKey]
NoThread == Thread("none", NoAddress, FALSE, FALSE)
Threads == {1, 2}

Calls == 1 .. MaxCalls

EmptyStore == [k \in Addresses \X BOOLEAN |-> NoKey]
EmptyCache == [a \in Addresses |-> NoTs]

\* the record of a call that starts in the store st: its arguments (other is
\* the sign or verify address, key the key handed to put_key or delete_key,
\* data the data to encrypt, decrypt or verify), the store before it, the
\* calls in flight when it starts, and what it has done: store reads, store
\* writes, requests, engine calls, requests made while resolving a private
\* key, the answer to its request, whether its first lookup missed, the
\* entry its last put_key write replaced, whether its gatherResults has
\* failed, and whether it has run alone: no chain of another call was
\* waiting at any time since it started
NewCall(op, address, ktype, private, fetch_remote, other, key, data, st, during) ==
    [op |-> op, pc |-> "run", address |-> address, ktype |-> ktype,
     private |-> private, fetch_remote |-> fetch_remote, other |-> other,
     key |-> key, data |-> data, plain |-> "none", before |-> st,
     during |-> during, res |-> OkNone, reads |-> 0, writes |-> 0,
     reqs |-> 0, eng |-> 0, preqs |-> 0, resp |-> NoResp, miss |-> FALSE,
     replaced |-> NoKey, failed |-> FALSE, alone |-> TRUE,
     th |-> <<NoThread, NoThread>>]

IdleCall ==
    [NewCall("none", NoAddress, "OpenPGPKey", FALSE, FALSE, NoAddress, NoKey,
             NoData, EmptyStore, {}) EXCEPT !.pc = "idle"]

Failed(res) == res.kind # "ok"

\* thread k of the call c has ended with res
ended(c, k, res) ==
    [c EXCEPT !.th[k] = [@ EXCEPT !.pc = "done", !.res = res, !.key = NoKey,
                                  !.next = NoKey]]

\* the code run by thread k has raised res
raised(c, k, res) ==
    [c EXCEPT !.th[k] = [@ EXCEPT !.pc = "raised", !.res = res, !.key = NoKey,
                                  !.next = NoKey]]

\* the Deferred that put_key returned to thread k has fired with res
put_done(c, k, res) ==
    [c EXCEPT !.th[k] = [@ EXCEPT !.pc = "put_done", !.res = res,
                                  !.key = NoKey, !.next = NoKey]]

-----------------------------------------------------------------------------
(* KeyManager: writes *)

\* a check that lets every key type pass
_assert_any_key_type(ktype) == ktype \in KeyTypes

_assert_supported_key_type(ktype) == ktype \in wrapper_map

\* check_upgrade with the policy left out: the candidate is always written
check_upgrade_always(c, k, old_key) ==
    [c EXCEPT !.th[k].pc = "put_write"]

\* check_upgrade that accepts the candidate and returns before the write
check_upgrade_nowrite(c, k, old_key) ==
    IF c.th[k].key.private \/ can_upgrade(c.th[k].key, old_key)
    THEN put_done(c, k, OkNone)
    ELSE put_done(c, k, Fail("KeyNotValidUpgrade", c.th[k].address))

\* the callback check_upgrade (lines 710-716) of the put_key that thread k
\* runs, called with the old key: the scheme's put_key is issued or
\* KeyNotValidUpgrade is raised in the callback, which fails the Deferred
check_upgrade(c, k, old_key) ==
    IF c.th[k].key.private \/ can_upgrade(c.th[k].key, old_key)
    THEN [c EXCEPT !.th[k].pc = "put_write"]
    ELSE put_done(c, k, Fail("KeyNotValidUpgrade", c.th[k].address))

\* the errback old_key_not_found turns KeyNotFound into None
old_key_not_found(found) ==
    IF found.kind = "KeyNotFound" THEN NoKey ELSE found.key

\* put_key without the address check
put_key_unchecked(c, k, key, address) ==
    IF ~ _assert_supported_key_type(key.ktype)
    THEN raised(c, k, Fail("UnsupportedKeyTypeError", NoAddress))
    ELSE [c EXCEPT !.th[k].pc = "put_read", !.th[k].key = key,
                   !.th[k].address = address]

\* put_key(key, address) run by thread k, up to the Deferred it returns
\* (lines 697-722): failed already, or waiting for the lookup of the old key
put_key(c, k, key, address) ==
    IF ~ _assert_supported_key_type(key.ktype)
    THEN raised(c, k, Fail("UnsupportedKeyTypeError", NoAddress))
    ELSE IF address \notin key.address
    THEN put_done(c, k, Fail("KeyAddressMismatch", address))
    ELSE [c EXCEPT !.th[k].pc = "put_read", !.th[k].key = key,
                   !.th[k].address = address]

\* the scheme has written the key of thread k: the Deferred of put_key fires
\* with None, and the callback that put_raw_key added (line 753) calls
\* put_key for the private key
put_written(c, k) ==
    IF c.th[k].next = NoKey
    THEN put_done(c, k, OkNone)
    ELSE put_key([c EXCEPT !.th[k].next = NoKey], k, c.th[k].next,
                 c.th[k].address)

\* put_raw_key that stores the private key first
put_raw_key_priv_first(c, k, raw, ktype, address, validation) ==
    IF ~ _assert_supported_key_type(ktype)
    THEN raised(c, k, Fail("UnsupportedKeyTypeError", NoAddress))
    ELSE IF parse_ascii_key(raw).pub = NoKey
    THEN raised(c, k, Fail("AttributeError", Detail))
    ELSE IF parse_ascii_key(raw).priv = NoKey
    THEN put_key(c, k, [parse_ascii_key(raw).pub EXCEPT !.validation = validation], address)
    ELSE put_key([c EXCEPT !.th[k].next = [parse_ascii_key(raw).pub EXCEPT !.validation = validation]],
                 k, parse_ascii_key(raw).priv, address)

\* put_raw_key run by thread k, up to the Deferred it returns (lines 748-754)
put_raw_key(c, k, raw, ktype, address, validation) ==
    IF ~ _assert_supported_key_type(ktype)
    THEN raised(c, k, Fail("UnsupportedKeyTypeError", NoAddress))
    ELSE IF parse_ascii_key(raw).pub = NoKey
    \* pubkey.validation = validation on None
    THEN raised(c, k, Fail("AttributeError", Detail))
    ELSE put_key([c EXCEPT !.th[k].next = parse_ascii_key(raw).priv], k,
                 [parse_ascii_key(raw).pub EXCEPT !.validation = validation],
                 address)

\* fetch_key up to the Deferred it returns (lines 781-793); resp is the
\* answer to its GET
fetch_key(c, k, address, resp, ktype, validation) ==
    IF ~ _assert_supported_key_type(ktype)
    THEN raised(c, k, Fail("UnsupportedKeyTypeError", NoAddress))
    ELSE IF resp.kind = "error"
    \* requests raises, nothing catches it
    THEN raised([c EXCEPT !.reqs = @ + 1, !.resp = resp], k,
                Fail("RequestException", Detail))
    \* not res.ok
    ELSE IF resp.status >= 400
    THEN put_done([c EXCEPT !.reqs = @ + 1, !.resp = resp], k,
                  Fail("KeyNotFound", UriText))
    ELSE IF parse_ascii_key(resp.raw).pub = NoKey
    THEN put_done([c EXCEPT !.reqs = @ + 1, !.resp = resp], k,
                  Fail("KeyNotFound", UriText))
    ELSE put_key([c EXCEPT !.reqs = @ + 1, !.resp = resp], k,
                 [parse_ascii_key(resp.raw).pub EXCEPT !.validation = validation],
                 address)

-----------------------------------------------------------------------------
(* KeyManager: resolution *)

\* @memoized_method(invalidation=300)
Invalidation == 300

\* lines 237-240; the address has exactly one "@"
validation_level(uri, address) ==
    IF _split_email(address)[2] = _get_domain(uri)
    THEN Provider_Trust
    ELSE Weak_Chain

\* thread k of c has made a request that was answered with resp
requested(c, k, resp) ==
    [c EXCEPT !.reqs = @ + 1,
              !.preqs = @ + (IF c.th[k].private THEN 1 ELSE 0),
              !.resp = resp]

\* a try/except that catches the failures of put_raw_key too
server_keys_put_caught(c, k) ==
    IF c.th[k].pc = "raised" \/ (c.th[k].pc = "put_done" /\ Failed(c.th[k].res))
    THEN put_done(c, k, Fail("KeyNotFound", Detail))
    ELSE c

\* the try block around put_raw_key (lines 228-256): an exception it raises
\* is caught and becomes a Deferred failed with KeyNotFound, the Deferred it
\* returns is returned as it is
server_keys_put(c, k) ==
    IF c.th[k].pc = "raised"
    THEN put_done(c, k, Fail("KeyNotFound", Detail))
    ELSE c

\* a body that lets the exceptions of the request through
_fetch_keys_uncaught(c, k, uri, address, resp) ==
    IF resp.kind = "error"
    THEN raised(requested(c, k, resp), k, Fail("RequestException", Detail))
    ELSE IF resp.status >= 400
    THEN raised(requested(c, k, resp), k, Fail("HTTPError", Detail))
    ELSE IF ~ resp.has
    THEN put_done(requested(c, k, resp), k, OkNone)
    ELSE IF _split_email(address) = NoSplit
    THEN put_done(requested(c, k, resp), k, Fail("KeyNotFound", Detail))
    ELSE server_keys_put(
           put_raw_key(requested(c, k, resp), k, resp.raw, "OpenPGPKey",
                       address, validation_level(uri, address)), k)

\* the body of _fetch_keys_from_server (lines 226-257), called by thread k
\* and answered with resp, up to the Deferred it returns: fired already
\* (put_done) or waiting in put_key
_fetch_keys_from_server(c, k, uri, address, resp) ==
    IF resp.kind = "error"
    THEN put_done(requested(c, k, resp), k, Fail("KeyNotFound", Detail))
    ELSE IF resp.status = 404
    THEN put_done(requested(c, k, resp), k, Fail("KeyNotFound", address))
    ELSE IF resp.status >= 400
    THEN put_done(requested(c, k, resp), k, Fail("KeyNotFound", Detail))
    ELSE IF ~ resp.has
    \* d = defer.succeed(None)
    THEN put_done(requested(c, k, resp), k, OkNone)
    ELSE IF _split_email(address) = NoSplit
    \* "_, domain = None" raises TypeError inside the try
    THEN put_done(requested(c, k, resp), k, Fail("KeyNotFound", Detail))
    ELSE server_keys_put(
           put_raw_key(requested(c, k, resp), k, resp.raw, "OpenPGPKey",
                       address, validation_level(uri, address)), k)

\* a memoized method whose entries never expire
memoized_fetch_forever(ch, t, address) == ch[address] # NoTs

\* the memoized method answers the call at time t from its cache ch
memoized_fetch(ch, t, address) ==
    ch[address] # NoTs /\ t - ch[address] < Invalidation

\* get_key run by thread k up to the Deferred it returns (lines 321-354):
\* the lookup is issued
get_key(c, k, address, ktype, private, fetch_remote) ==
    IF ~ _assert_supported_key_type(ktype)
    THEN raised(c, k, Fail("UnsupportedKeyTypeError", NoAddress))
    ELSE [c EXCEPT !.th[k] = Thread("lookup", address, private, fetch_remote)]

\* key_not_found that asks the nickserver whatever fetch_remote says
key_not_found_remote(c, k, failure) ==
    IF failure.kind # "KeyNotFound" THEN ended(c, k, failure)
    ELSE IF c.th[k].private = TRUE
    THEN ended([c EXCEPT !.miss = TRUE], k, failure)
    ELSE [c EXCEPT !.th[k].pc = "fetch", !.miss = TRUE]

\* key_not_found that asks the nickserver for private keys too
key_not_found_private(c, k, failure) ==
    IF failure.kind # "KeyNotFound" THEN ended(c, k, failure)
    ELSE IF c.th[k].fetch_remote = FALSE
    THEN ended([c EXCEPT !.miss = TRUE], k, failure)
    ELSE [c EXCEPT !.th[k].pc = "fetch", !.miss = TRUE]

\* the errback key_not_found (lines 332-349) of thread k, up to the call of
\* _fetch_keys_from_server
key_not_found(c, k, failure) ==
    IF failure.kind # "KeyNotFound" THEN ended(c, k, failure)
    ELSE IF c.th[k].fetch_remote = FALSE \/ c.th[k].private = TRUE
    THEN ended([c EXCEPT !.miss = TRUE], k, failure)
    ELSE [c EXCEPT !.th[k].pc = "fetch", !.miss = TRUE]

\* the chain without the second lookup: the caller gets what the Deferred
\* of _fetch_keys_from_server fired with
fetched_no_requery(c, k, res) == ended(c, k, res)

\* the Deferred of _fetch_keys_from_server has fired with res and runs the
\* callbacks that key_not_found added (lines 345-348): a failure skips
\* them, a success issues the second lookup
fetched(c, k, res) ==
    IF Failed(res)
    THEN ended(c, k, res)
    ELSE [c EXCEPT !.th[k].pc = "requery"]

-----------------------------------------------------------------------------
(* KeyManager: encrypt / decrypt / sign / verify *)

\* the failure that gatherResults fails with: the first failure, wrapped
FirstError(res, index) == [subFailure |-> res, index |-> index]

_extract_first_error(failure) == failure.subFailure

\* a join that calls back as soon as the first Deferred has succeeded
gatherResults_first_only(c, k) ==
    IF c.failed THEN "fired"
    ELSE IF c.th[1].pc = "done" /\ ~ Failed(c.th[1].res) THEN "callback"
    ELSE IF Failed(c.th[k].res) THEN "errback"
    ELSE "wait"

\* defer.gatherResults([dpub, dpriv], consumeErrors=True) when thread k has
\* ended: it fails with the first failure, succeeds when both Deferreds have
\* succeeded, and ignores what comes after it has fired
gatherResults(c, k) ==
    IF c.failed THEN "fired"
    ELSE IF Failed(c.th[k].res) THEN "errback"
    ELSE IF \A j \in Threads : c.th[j].pc \in {"none", "done"} /\ ~ Failed(c.th[j].res)
    THEN "callback"
    ELSE "wait"

\* the errback of the gathered Deferred (lines 511, 571)
gather_failed(c, k) ==
    [c EXCEPT !.failed = TRUE,
              !.res = _extract_first_error(FirstError(c.th[k].res, k))]

\* a callback that returns the ciphertext without storing the flag
encrypt_cb_unsaved(c, pubkey, signkey) ==
    [c EXCEPT !.eng = @ + 1,
              !.res = Res("ok", NoKey, NoAddress,
                          scheme_encrypt(c.data, pubkey, signkey), "none")]

\* the callback encrypt(keys) of KeyManager.encrypt (lines 495-503): the
\* engine encrypts, the write of the used key is issued
encrypt_cb(c, pubkey, signkey) ==
    [c EXCEPT !.eng = @ + 1,
              !.res = Res("ok", NoKey, NoAddress,
                          scheme_encrypt(c.data, pubkey, signkey), "none"),
              !.th[1].pc = "flag_write",
              !.th[1].key = [pubkey EXCEPT !.encr_used = TRUE]]

\* a callback that unpacks the gathered keys in the other order
decrypt_cb_swapped(c, pubkey, privkey) ==
    IF pubkey = NoKey \/ privkey = NoKey \/ ~ scheme_decrypt_ok(c.data, pubkey)
    THEN [c EXCEPT !.eng = @ + 1, !.res = Fail("DecryptError", Detail)]
    ELSE IF scheme_decrypt_signed(c.data, privkey)
    THEN [c EXCEPT !.eng = @ + 1,
                   !.res = Res("ok", [privkey EXCEPT !.sign_used = TRUE], NoAddress,
                               [plain |-> c.data.plain, to |-> "none", signer |-> "none"],
                               "key"),
                   !.th[1].pc = "flag_write",
                   !.th[1].key = [privkey EXCEPT !.sign_used = TRUE]]
    ELSE [c EXCEPT !.eng = @ + 1,
                   !.res = Res("ok", NoKey, <<privkey.key_id>>,
                               [plain |-> c.data.plain, to |-> "none", signer |-> "none"],
                               "InvalidSignature")]

\* the callback decrypt(keys) of KeyManager.decrypt (lines 547-562)
decrypt_cb(c, pubkey, privkey) ==
    IF ~ scheme_decrypt_ok(c.data, privkey)
    THEN [c EXCEPT !.eng = @ + 1, !.res = Fail("DecryptError", Detail)]
    ELSE IF pubkey = NoKey
    THEN [c EXCEPT !.eng = @ + 1,
                   !.res = Res("ok", NoKey, c.other,
                               [plain |-> c.data.plain, to |-> "none", signer |-> "none"],
                               "KeyNotFound")]
    ELSE IF scheme_decrypt_signed(c.data, pubkey)
    \* line 555: the used key is written under address
    THEN [c EXCEPT !.eng = @ + 1,
                   !.res = Res("ok", [pubkey EXCEPT !.sign_used = TRUE], NoAddress,
                               [plain |-> c.data.plain, to |-> "none", signer |-> "none"],
                               "key"),
                   !.th[1].pc = "flag_write",
                   !.th[1].key = [pubkey EXCEPT !.sign_used = TRUE]]
    ELSE [c EXCEPT !.eng = @ + 1,
                   !.res = Res("ok", NoKey, <<pubkey.key_id>>,
                               [plain |-> c.data.plain, to |-> "none", signer |-> "none"],
                               "InvalidSignature")]

\* dpub.addErrback(lambda f: None if f.check(KeyNotFound) else f)
verify_key_errback(res) == IF res.kind = "KeyNotFound" THEN OkNone ELSE res

\* d.addCallbacks(encrypt, self._extract_first_error) on the gathered
\* Deferred, when thread k has ended
encrypt_gather(c, k) ==
    IF gatherResults(c, k) = "errback" THEN gather_failed(c, k)
    ELSE IF gatherResults(c, k) = "callback"
    THEN encrypt_cb(c, c.th[1].res.key, c.th[2].res.key)
    ELSE c

\* d.addCallbacks(decrypt, self._extract_first_error) on the gathered
\* Deferred, when thread k has ended
decrypt_gather(c, k) ==
    IF gatherResults(c, k) = "errback" THEN gather_failed(c, k)
    ELSE IF gatherResults(c, k) = "callback"
    THEN decrypt_cb(c, c.th[1].res.key, c.th[2].res.key)
    ELSE c

\* the callback sign(privkey) of KeyManager.sign (lines 607-610)
sign_cb(c, privkey) ==
    [c EXCEPT !.eng = @ + 1,
              !.res = Res("ok", NoKey, NoAddress, scheme_sign(c.data, privkey),
                          "none")]

\* a callback that records the use of the key before the signature is
\* checked
verify_cb_mark_first(c, pubkey) ==
    IF scheme_verify(c.data, pubkey)
    THEN [c EXCEPT !.eng = @ + 1,
                   !.res = OkKey([pubkey EXCEPT !.sign_used = TRUE]),
                   !.th[1].pc = "flag_write",
                   !.th[1].key = [pubkey EXCEPT !.sign_used = TRUE]]
    ELSE [c EXCEPT !.eng = @ + 1,
                   !.res = Fail("InvalidSignature", <<pubkey.key_id>>),
                   !.th[1].pc = "flag_write",
                   !.th[1].key = [pubkey EXCEPT !.sign_used = TRUE]]

\* the callback verify(pubkey) of KeyManager.verify (lines 645-656)
verify_cb(c, pubkey) ==
    IF scheme_verify(c.data, pubkey)
    THEN [c EXCEPT !.eng = @ + 1,
                   !.res = OkKey([pubkey EXCEPT !.sign_used = TRUE]),
                   !.th[1].pc = "flag_write",
                   !.th[1].key = [pubkey EXCEPT !.sign_used = TRUE]]
    ELSE [c EXCEPT !.eng = @ + 1,
                   !.res = Fail("InvalidSignature", <<pubkey.key_id>>)]

\* the callback send(pubkey) of KeyManager.send_key (lines 281-290); resp is
\* the answer to its PUT, and _put raises for a transport error and for an
\* error status
send_cb(c, pubkey, resp) ==
    IF resp.kind = "error"
    THEN [c EXCEPT !.reqs = @ + 1, !.resp = resp,
                   !.res = Fail("RequestException", Detail)]
    ELSE IF resp.status >= 400
    THEN [c EXCEPT !.reqs = @ + 1, !.resp = resp,
                   !.res = Fail("HTTPError", Detail)]
    ELSE [c EXCEPT !.reqs = @ + 1, !.resp = resp, !.res = OkNone]

\* a chain of the call c waits for the store
pending(c) == \E j \in Threads : c.th[j].pc \notin {"none", "done"}

\* the Deferred that the call returned fires when the gathered Deferred has
\* failed, which it does on the first failure (lines 510-511, 570-571), or
\* when the chains have ended; the resolution that is left runs on.  A call
\* whose result was taken is over when its chains have ended
settled(c) ==
    IF c.pc = "run" /\ (c.failed \/ ~ pending(c))
    THEN [c EXCEPT !.pc = "done"]
    ELSE IF c.pc = "left" /\ ~ pending(c)
    THEN IdleCall
    ELSE c

\* thread k of c has ended: the callbacks that the call added to its
\* Deferred run; resp is the answer to the request they make, if any
joined(c, k, resp) ==
    IF c.op = "encrypt" THEN settled(encrypt_gather(c, k))
    ELSE IF c.op = "decrypt"
    THEN settled(decrypt_gather([c EXCEPT !.th[1].res = verify_key_errback(@)], k))
    ELSE IF Failed(c.th[k].res) THEN settled([c EXCEPT !.res = c.th[k].res])
    ELSE IF c.op = "sign" THEN settled(sign_cb(c, c.th[k].res.key))
    ELSE IF c.op = "verify" THEN settled(verify_cb(c, c.th[k].res.key))
    ELSE IF c.op = "send_key" THEN settled(send_cb(c, c.th[k].res.key, resp))
    ELSE settled([c EXCEPT !.res = c.th[k].res])

\* encrypt up to the Deferred it returns (lines 493-512): dpub is issued,
\* then dpriv
encrypt(c, address, ktype, sign, fetch_remote) ==
    IF ~ _assert_supported_key_type(ktype)
    THEN raised(c, 1, Fail("UnsupportedKeyTypeError", NoAddress))
    ELSE IF sign = NoAddress
    THEN get_key(c, 1, address, ktype, FALSE, fetch_remote)
    ELSE get_key(get_key(c, 1, address, ktype, FALSE, fetch_remote), 2, sign,
                 ktype, TRUE, TRUE)

\* decrypt up to the Deferred it returns (lines 545-572): dpriv is issued,
\* then dpub
decrypt(c, address, ktype, verify, fetch_remote) ==
    IF ~ _assert_supported_key_type(ktype)
    THEN raised(c, 1, Fail("UnsupportedKeyTypeError", NoAddress))
    ELSE IF verify = NoAddress
    THEN get_key(c, 2, address, ktype, TRUE, TRUE)
    ELSE get_key(get_key(c, 2, address, ktype, TRUE, TRUE), 1, verify, ktype,
                 FALSE, fetch_remote)

\* sign up to the Deferred it returns (lines 605-614)
sign(c, address, ktype) ==
    IF ~ _assert_supported_key_type(ktype)
    THEN raised(c, 1, Fail("UnsupportedKeyTypeError", NoAddress))
    ELSE get_key(c, 1, address, ktype, TRUE, TRUE)

\* verify up to the Deferred it returns (lines 643-661)
verify(c, address, ktype, fetch_remote) ==
    IF ~ _assert_supported_key_type(ktype)
    THEN raised(c, 1, Fail("UnsupportedKeyTypeError", NoAddress))
    ELSE get_key(c, 1, address, ktype, FALSE, fetch_remote)

-----------------------------------------------------------------------------
(* KeyManager: gen_key / send_key / delete_key *)

\* gen_key up to the Deferred it returns (lines 397-406)
gen_key(c, ktype) ==
    IF ~ _assert_supported_key_type(ktype)
    THEN raised(c, 1, Fail("UnsupportedKeyTypeError", NoAddress))
    ELSE [c EXCEPT !.th[1].pc = "gen"]

\* send_key up to the Deferred it returns (lines 279-295)
send_key(c, ktype) ==
    IF ~ _assert_supported_key_type(ktype)
    THEN raised(c, 1, Fail("UnsupportedKeyTypeError", NoAddress))
    ELSE get_key(c, 1, OwnAddress, ktype, FALSE, FALSE)

\* delete_key up to the Deferred it returns (lines 676-677)
delete_key(c, key) ==
    IF ~ _assert_supported_key_type(key.ktype)
    THEN raised(c, 1, Fail("UnsupportedKeyTypeError", NoAddress))
    ELSE [c EXCEPT !.th[1].pc = "delete"]

-----------------------------------------------------------------------------
(* The reactor *)

NoDeferred == [st |-> "none", res |-> OkNone, queue |-> <<>>, paused |-> FALSE]

\* the state after construction, with the nickserver URI given
Constructed(uri) ==
    /\ nickserver_uri = uri
    /\ store = EmptyStore
    /\ cache = EmptyCache
    /\ now = 0
    /\ calls = [i \in Calls |-> IdleCall]
    /\ dfr = [a \in Addresses |-> NoDeferred]
    /\ nreq = [a \in Addresses |-> 0]

Init == Constructed([scheme |-> "https", host |-> <<"p">>, port |-> 6425])

InitUri == \E uri \in Uris : Constructed(uri)

\* the Deferreds of the calls made so far have fired and their results were
\* taken: a caller that makes one call after the other makes the next
Quiet == \A j \in Calls : calls[j].pc \in {"idle", "left"}

\* the calls whose Deferred waits
InFlight == {j \in Calls : calls[j].pc = "run"}

\* what the caller of c gets back: an exception, a Deferred that has fired
\* already, or a Deferred that waits
returned(c) ==
    IF c.th[1].pc = "raised"
    THEN [c EXCEPT !.pc = "done", !.res = c.th[1].res, !.th[1].pc = "done"]
    ELSE IF c.th[1].pc = "put_done"
    THEN joined(ended(c, 1, c.th[1].res), 1, NoResp)
    ELSE c

\* a caller makes the call c.  It is recorded as call i, the lowest number
\* that is free; neither it nor the calls that are not over run alone
Started(i, c) ==
    /\ calls[i].pc = "idle"
    /\ \A j \in 1 .. i - 1 : calls[j].pc # "idle"
    /\ calls' = [j \in Calls |->
                   IF j = i
                   THEN [returned(c) EXCEPT !.alone = \A n \in Calls : calls[n].pc = "idle"]
                   ELSE IF calls[j].pc = "idle" THEN calls[j]
                   ELSE [calls[j] EXCEPT !.alone = FALSE]]
    /\ UNCHANGED <<nickserver_uri, store, cache, now, dfr, nreq>>

\* the call c after its caller has taken the result: what is left of it are
\* the chains that still wait for the store
taken(c) ==
    IF pending(c)
    THEN [IdleCall EXCEPT !.pc = "left", !.op = c.op, !.failed = c.failed,
                          !.alone = FALSE, !.th = c.th]
    ELSE IdleCall

\* the caller of call i, whose Deferred has fired, takes its result
Return(i) ==
    /\ calls[i].pc = "done"
    /\ calls' = [j \in Calls |->
                   IF j = i THEN taken(calls[i])
                   ELSE [calls[j] EXCEPT !.during = @ \ {i}]]
    /\ UNCHANGED <<nickserver_uri, store, cache, now, dfr, nreq>>

\* Run the callbacks that get_key added to the fired Deferred d, in the
\* order they were added (lines 345-348).  A failure skips the callbacks of
\* the first waiter and is handed to it; the Deferred then holds None.  A
\* success issues the waiter's second lookup and the Deferred waits for it.
RECURSIVE RunCallbacks(_, _)
RunCallbacks(d, cs) ==
    IF d.st = "fired" /\ ~ d.paused /\ d.queue # <<>>
    THEN LET i == Head(d.queue)[1]
             k == Head(d.queue)[2]
         IN IF fetched(cs[i], k, d.res).th[k].pc = "requery"
            THEN [d |-> [d EXCEPT !.paused = TRUE],
                  cs |-> [cs EXCEPT ![i] = fetched(@, k, d.res)]]
            ELSE RunCallbacks(
                   [d EXCEPT !.res = OkNone, !.queue = Tail(@)],
                   [cs EXCEPT ![i] = joined(fetched(@, k, d.res), k, NoResp)])
    ELSE [d |-> d, cs |-> cs]

\* the Deferred d cached for the address a runs its callbacks
Fired(a, d, cs) ==
    /\ dfr' = [dfr EXCEPT ![a] = RunCallbacks(d, cs).d]
    /\ calls' = RunCallbacks(d, cs).cs

\* thread k of call i has called _fetch_keys_from_server, which was not
\* answered from the cache; c is the call after the body of the method.
\* The Deferred that the body returned is cached with the time of the call
\* and key_not_found adds its callbacks to it
Fetched(i, k, c) ==
    /\ nreq' = [nreq EXCEPT ![c.th[k].address] = @ + 1]
    /\ IF c.th[k].pc = "raised"
       THEN /\ calls' = [calls EXCEPT ![i] = joined(ended(c, k, c.th[k].res), k, NoResp)]
            /\ UNCHANGED <<cache, dfr>>
       ELSE /\ cache' = [cache EXCEPT ![c.th[k].address] = now]
            /\ IF c.th[k].pc = "put_done"
               THEN Fired(c.th[k].address,
                          [st |-> "fired", res |-> c.th[k].res,
                           queue |-> << <<i, k>> >>, paused |-> FALSE],
                          [calls EXCEPT ![i] = [c EXCEPT !.th[k].pc = "waiting"]])
               ELSE /\ dfr' = [dfr EXCEPT ![c.th[k].address] =
                                 [st |-> "pending", res |-> OkNone,
                                  queue |-> << <<i, k>> >>, paused |-> FALSE]]
                    /\ calls' = [calls EXCEPT ![i] = c]

\* the first lookup of thread k of call i was answered; c is the call after
\* key_found or key_not_found, resp the answer to the request that is made
\* in this turn
LookedUp(i, k, c, resp) ==
    IF c.th[k].pc = "done"
    THEN /\ calls' = [calls EXCEPT ![i] = joined(c, k, resp)]
         /\ UNCHANGED <<cache, dfr, nreq>>
    ELSE IF memoized_fetch(cache, now, c.th[k].address)
    THEN /\ Fired(c.th[k].address,
                  [dfr[c.th[k].address] EXCEPT !.queue = Append(@, <<i, k>>)],
                  [calls EXCEPT ![i] = [c EXCEPT !.th[k].pc = "waiting"]])
         /\ UNCHANGED <<cache, nreq>>
    ELSE Fetched(i, k, _fetch_keys_from_server(c, k, nickserver_uri, c.th[k].address, resp))

\* answers of the provider to the PUT of send_key
PutResponses == {TransportError, Http(500, FALSE, Garbage), Http(200, FALSE, Garbage)}

\* the answers that the turn after the first lookup of thread k of c may
\* get: those of the nickserver when it is asked, those of the provider
\* when send_key uploads the key
Answers(c, k, responses) ==
    IF c.th[k].pc = "fetch"
    THEN (IF memoized_fetch(cache, now, c.th[k].address) THEN {NoResp} ELSE responses)
    ELSE IF c.op = "send_key" /\ ~ Failed(c.th[k].res) THEN PutResponses
    ELSE {NoResp}

\* the scheme answers the first lookup of thread k of call i (line 352)
Lookup(i, k, responses) ==
    /\ calls[i].pc # "idle"
    /\ calls[i].th[k].pc = "lookup"
    /\ LET found == scheme_get_key(store, calls[i].th[k].address, calls[i].th[k].private)
           c == IF Failed(found)
                THEN key_not_found([calls[i] EXCEPT !.reads = @ + 1], k, found)
                ELSE ended([calls[i] EXCEPT !.reads = @ + 1], k, found)
       IN \E resp \in Answers(c, k, responses) : LookedUp(i, k, c, resp)
    /\ UNCHANGED <<nickserver_uri, store, now>>

\* thread k of call i has made a turn in put_key; c is the call after it.
\* When the Deferred of the write path has fired, the call ends, or the
\* Deferred of _fetch_keys_from_server, which is that Deferred, runs its
\* callbacks
PutOps == {"put_key", "put_raw_key", "fetch_key"}
PutStepped(i, k, c) ==
    IF c.th[k].pc # "put_done"
    THEN /\ calls' = [calls EXCEPT ![i] = c]
         /\ UNCHANGED dfr
    ELSE IF c.op \in PutOps
    THEN /\ calls' = [calls EXCEPT ![i] = joined(ended(c, k, c.th[k].res), k, NoResp)]
         /\ UNCHANGED dfr
    ELSE Fired(c.th[k].address,
               [dfr[c.th[k].address] EXCEPT !.st = "fired", !.res = c.th[k].res],
               [calls EXCEPT ![i] = [c EXCEPT !.th[k].pc = "waiting"]])

\* the scheme answers the lookup of the old key (line 718) and check_upgrade
\* runs
PutRead(i, k) ==
    /\ calls[i].pc # "idle"
    /\ calls[i].th[k].pc = "put_read"
    /\ PutStepped(i, k,
         check_upgrade([calls[i] EXCEPT !.reads = @ + 1], k,
                       old_key_not_found(
                         scheme_get_key(store, calls[i].th[k].address,
                                        calls[i].th[k].key.private))))
    /\ UNCHANGED <<nickserver_uri, store, cache, now, nreq>>

\* the scheme has written the key (line 712)
PutWrite(i, k) ==
    /\ calls[i].pc # "idle"
    /\ calls[i].th[k].pc = "put_write"
    /\ store' = scheme_put_key(store, calls[i].th[k].key, calls[i].th[k].address)
    /\ PutStepped(i, k,
         put_written([calls[i] EXCEPT
                        !.writes = @ + 1,
                        !.replaced = store[<<calls[i].th[k].address,
                                             calls[i].th[k].key.private>>]], k))
    /\ UNCHANGED <<nickserver_uri, cache, now, nreq>>

\* the scheme answers the second lookup (line 347): the thread ends with
\* what it found, the Deferred holds None and runs the callbacks of the
\* next waiter
Requery(i, k) ==
    /\ calls[i].pc # "idle"
    /\ calls[i].th[k].pc = "requery"
    /\ Fired(calls[i].th[k].address,
             [dfr[calls[i].th[k].address] EXCEPT
                !.res = OkNone, !.queue = Tail(@), !.paused = FALSE],
             [calls EXCEPT ![i] =
                joined(ended([@ EXCEPT !.reads = @ + 1], k,
                             scheme_get_key(store, calls[i].th[k].address, FALSE)),
                       k, NoResp)])
    /\ UNCHANGED <<nickserver_uri, store, cache, now, nreq>>

\* the scheme has written the key that a callback of encrypt, decrypt or
\* verify marked as used (lines 501, 555, 650), under the address of the call
FlagWrite(i) ==
    /\ calls[i].pc = "run"
    /\ calls[i].th[1].pc = "flag_write"
    /\ store' = scheme_put_key(store, calls[i].th[1].key, calls[i].address)
    /\ calls' = [calls EXCEPT ![i] =
                   settled([@ EXCEPT !.writes = @ + 1, !.th[1].pc = "done",
                                     !.th[1].key = NoKey])]
    /\ UNCHANGED <<nickserver_uri, cache, now, dfr, nreq>>

\* the scheme has generated the key pair (line 404)
Generated(i) ==
    /\ calls[i].pc = "run"
    /\ calls[i].th[1].pc = "gen"
    /\ store' = scheme_gen_key(store, OwnAddress)
    /\ calls' = [calls EXCEPT ![i] =
                   settled([@ EXCEPT !.writes = @ + 2, !.eng = @ + 1,
                                     !.res = OkKey(PrivKey("k1")),
                                     !.th[1].pc = "done"])]
    /\ UNCHANGED <<nickserver_uri, cache, now, dfr, nreq>>

\* the scheme has looked for the key and deleted it (line 677)
Deleted(i) ==
    /\ calls[i].pc = "run"
    /\ calls[i].th[1].pc = "delete"
    /\ store' = scheme_delete_key(store, calls[i].key)
    /\ calls' = [calls EXCEPT ![i] =
                   settled([@ EXCEPT
                              !.reads = @ + 1,
                              !.writes = @ + (IF scheme_entries(store, calls[i].key) = {} THEN 0 ELSE 1),
                              !.res = IF scheme_entries(store, calls[i].key) = {}
                                      THEN Fail("KeyNotFound", Detail)
                                      ELSE OkNone,
                              !.th[1].pc = "done"])]
    /\ UNCHANGED <<nickserver_uri, cache, now, dfr, nreq>>

\* time.time() advances in steps of TickStep, up to MaxNow, whether or not a
\* call is in flight
TickStep == 100
MaxNow == 400

Tick ==
    /\ now + TickStep <= MaxNow
    /\ now' = now + TickStep
    /\ UNCHANGED <<nickserver_uri, store, cache, calls, dfr, nreq>>

-----------------------------------------------------------------------------
(* Calls made by callers *)

CallPutKey(i, keys, addresses) ==
    \E key \in keys, address \in addresses :
      Started(i, put_key(NewCall("put_key", address, key.ktype, key.private,
                                 FALSE, NoAddress, key, NoData, store, InFlight),
                         1, key, address))

\* inputs: <<raw, ktype, address, validation>>
CallPutRawKey(i, inputs) ==
    \E x \in inputs :
      Started(i, put_raw_key(NewCall("put_raw_key", x[3], x[2], x[1].secret,
                                     FALSE, NoAddress, NoKey, NoData, store,
                                     InFlight),
                             1, x[1], x[2], x[3], x[4]))

\* inputs: <<address, resp, ktype, validation>>
CallFetchKey(i, inputs) ==
    \E x \in inputs :
      Started(i, fetch_key(NewCall("fetch_key", x[1], x[3], FALSE, FALSE,
                                   NoAddress, NoKey, NoData, store, InFlight),
                           1, x[1], x[2], x[3], x[4]))

\* inputs: <<address, ktype, private, fetch_remote>>
CallGetKey(i, inputs) ==
    \E x \in inputs :
      Started(i, get_key(NewCall("get_key", x[1], x[2], x[3], x[4], NoAddress,
                                 NoKey, NoData, store, InFlight),
                         1, x[1], x[2], x[3], x[4]))

\* inputs: <<data, address, ktype, sign, fetch_remote>>
CallEncrypt(i, inputs) ==
    \E x \in inputs :
      Started(i, encrypt(NewCall("encrypt", x[2], x[3], FALSE, x[5], x[4],
                                 NoKey, x[1], store, InFlight),
                         x[2], x[3], x[4], x[5]))

\* inputs: <<data, address, ktype, verify, fetch_remote>>
CallDecrypt(i, inputs) ==
    \E x \in inputs :
      Started(i, decrypt(NewCall("decrypt", x[2], x[3], FALSE, x[5], x[4],
                                 NoKey, x[1], store, InFlight),
                         x[2], x[3], x[4], x[5]))

\* the caller of the encrypt call i, which returned a ciphertext, hands it
\* to decrypt(data, address, verify=sign); the record keeps the plaintext
\* and the store before the encrypt call
CallDecryptReturned(i) ==
    /\ calls[i].pc = "done"
    /\ calls[i].op = "encrypt"
    /\ ~ Failed(calls[i].res)
    /\ calls' = [j \in Calls |->
                   IF j = i
                   THEN returned(decrypt([NewCall("decrypt", calls[i].address,
                                                  calls[i].ktype, FALSE,
                                                  calls[i].fetch_remote,
                                                  calls[i].other, NoKey,
                                                  calls[i].res.data,
                                                  calls[i].before, InFlight)
                                            EXCEPT !.plain = calls[i].data,
                                                   !.alone = calls[i].alone],
                                         calls[i].address, calls[i].ktype,
                                         calls[i].other, calls[i].fetch_remote))
                   ELSE IF calls[j].pc = "idle" THEN calls[j]
                   ELSE [calls[j] EXCEPT !.alone = FALSE]]
    /\ UNCHANGED <<nickserver_uri, store, cache, now, dfr, nreq>>

\* inputs: <<data, address, ktype>>
CallSign(i, inputs) ==
    \E x \in inputs :
      Started(i, sign(NewCall("sign", x[2], x[3], TRUE, TRUE, NoAddress, NoKey,
                              x[1], store, InFlight),
                      x[2], x[3]))

\* inputs: <<data, address, ktype, fetch_remote>>
CallVerify(i, inputs) ==
    \E x \in inputs :
      Started(i, verify(NewCall("verify", x[2], x[3], FALSE, x[4], NoAddress,
                                NoKey, x[1], store, InFlight),
                        x[2], x[3], x[4]))

CallGenKey(i, ktypes) ==
    \E ktype \in ktypes :
      Started(i, gen_key(NewCall("gen_key", OwnAddress, ktype, TRUE, FALSE,
                                 NoAddress, NoKey, NoData, store, InFlight),
                         ktype))

CallSendKey(i, ktypes) ==
    \E ktype \in ktypes :
      Started(i, send_key(NewCall("send_key", OwnAddress, ktype, FALSE, FALSE,
                                  NoAddress, NoKey, NoData, store, InFlight),
                          ktype))

CallDeleteKey(i, keys) ==
    \E key \in keys :
      Started(i, delete_key(NewCall("delete_key", NoAddress, key.ktype,
                                    key.private, FALSE, NoAddress, key, NoData,
                                    store, InFlight),
                            key))


-----------------------------------------------------------------------------
(* Specifications *)

\* answers to the GET of fetch_key
FetchResponses ==
    {TransportError, Http(404, FALSE, Garbage)}
      \cup { Http(200, TRUE, r) : r \in Raws }

\* put_key, put_raw_key, fetch_key and get_key, one call after the other
Next ==
    \/ \E i \in Calls : Quiet /\ CallPutKey(i, Candidates, {A1, A2})
    \/ \E i \in Calls : Quiet /\ CallPutRawKey(i, Raws \X KeyTypes \X {A1, A2} \X Levels)
    \/ \E i \in Calls : Quiet /\ CallFetchKey(i, {A1, A2} \X FetchResponses \X KeyTypes \X Levels)
    \/ \E i \in Calls : Quiet /\ CallGetKey(i, Lookups \X KeyTypes \X BOOLEAN \X BOOLEAN)
    \/ \E i \in Calls, k \in Threads : Lookup(i, k, Responses)
    \/ \E i \in Calls, k \in Threads : PutRead(i, k)
    \/ \E i \in Calls, k \in Threads : PutWrite(i, k)
    \/ \E i \in Calls, k \in Threads : Requery(i, k)
    \/ \E i \in Calls : Return(i)

Spec == Init /\ [][Next]_vars

\* get_key under every nickserver URI
NextUri ==
    \/ \E i \in Calls : Quiet /\ CallGetKey(i, Addresses \X wrapper_map \X {FALSE} \X {TRUE})
    \/ \E i \in Calls, k \in Threads : Lookup(i, k, Responses)
    \/ \E i \in Calls, k \in Threads : PutRead(i, k)
    \/ \E i \in Calls, k \in Threads : PutWrite(i, k)
    \/ \E i \in Calls, k \in Threads : Requery(i, k)
    \/ \E i \in Calls : Return(i)

SpecUri == InitUri /\ [][NextUri]_vars

\* the key bundles a caller imports with put_raw_key
Imports ==
    { <<[id |-> "k1", secret |-> TRUE], "OpenPGPKey", A1, Provider_Trust>>,
      <<[id |-> "k2", secret |-> TRUE], "OpenPGPKey", A2, Weak_Chain>> }

\* answers of the nickserver in the specifications below
FewResponses ==
    {Http(404, FALSE, Garbage), Http(200, TRUE, [id |-> "k1", secret |-> FALSE]),
     Http(200, TRUE, [id |-> "k1", secret |-> TRUE])}

\* encrypted data a caller hands to decrypt
Ciphertexts ==
    { [plain |-> Plain, to |-> "k1", signer |-> "k1"],
      [plain |-> Plain, to |-> "k1", signer |-> "k2"],
      [plain |-> Plain, to |-> "k2", signer |-> "k1"] }

\* signed data a caller hands to verify
Signatures == { [plain |-> Plain, to |-> "none", signer |-> sg] : sg \in KeyIds }

\* imports, get_key for private keys, encrypt, sign and decrypt of one
\* ciphertext, one call after the other
NextEncrypt ==
    \/ \E i \in Calls : Quiet /\ CallPutRawKey(i, Imports)
    \/ \E i \in Calls : Quiet /\ CallGetKey(i, {A1, A2} \X wrapper_map \X {TRUE} \X BOOLEAN)
    \/ \E i \in Calls : Quiet /\ CallEncrypt(i, {Plain} \X {A1, A2} \X wrapper_map \X {A1, A2, NoAddress} \X BOOLEAN)
    \/ \E i \in Calls : Quiet /\ CallDecrypt(i, {[plain |-> Plain, to |-> "k1", signer |-> "k2"]} \X {A1} \X wrapper_map \X {A1, NoAddress} \X {FALSE})
    \/ \E i \in Calls : Quiet /\ CallSign(i, {Plain} \X {A1, A2} \X wrapper_map)
    \/ \E i \in Calls, k \in Threads : Lookup(i, k, FewResponses)
    \/ \E i \in Calls, k \in Threads : PutRead(i, k)
    \/ \E i \in Calls, k \in Threads : PutWrite(i, k)
    \/ \E i \in Calls, k \in Threads : Requery(i, k)
    \/ \E i \in Calls : FlagWrite(i)
    \/ \E i \in Calls : Return(i)

SpecEncrypt == Init /\ [][NextEncrypt]_vars

\* imports and decrypt, one call after the other
NextDecrypt ==
    \/ \E i \in Calls : Quiet /\ CallPutRawKey(i, Imports)
    \/ \E i \in Calls : Quiet /\ CallDecrypt(i, Ciphertexts \X {A1, A2} \X wrapper_map \X {A1, A2, NoAddress} \X BOOLEAN)
    \/ \E i \in Calls, k \in Threads : Lookup(i, k, FewResponses)
    \/ \E i \in Calls, k \in Threads : PutRead(i, k)
    \/ \E i \in Calls, k \in Threads : PutWrite(i, k)
    \/ \E i \in Calls, k \in Threads : Requery(i, k)
    \/ \E i \in Calls : FlagWrite(i)
    \/ \E i \in Calls : Return(i)

SpecDecrypt == Init /\ [][NextDecrypt]_vars

\* imports and verify, one call after the other
NextVerify ==
    \/ \E i \in Calls : Quiet /\ CallPutRawKey(i, Imports)
    \/ \E i \in Calls : Quiet /\ CallVerify(i, Signatures \X {A1, A2} \X wrapper_map \X BOOLEAN)
    \/ \E i \in Calls, k \in Threads : Lookup(i, k, FewResponses)
    \/ \E i \in Calls, k \in Threads : PutRead(i, k)
    \/ \E i \in Calls, k \in Threads : PutWrite(i, k)
    \/ \E i \in Calls, k \in Threads : Requery(i, k)
    \/ \E i \in Calls : FlagWrite(i)
    \/ \E i \in Calls : Return(i)

SpecVerify == Init /\ [][NextVerify]_vars

\* public keys a caller hands to put_key
PublicCandidates == { k \in Candidates : k.ktype \in wrapper_map /\ ~ k.private }

\* imports, put_key, and encrypt followed by decrypt of what it returned
NextRound ==
    \/ \E i \in Calls : Quiet /\ CallPutRawKey(i, Imports)
    \/ \E i \in Calls : Quiet /\ CallPutKey(i, PublicCandidates, {A1, A2})
    \/ \E i \in Calls : Quiet /\ CallEncrypt(i, {Plain} \X {A1, A2} \X wrapper_map \X {A1, A2} \X {FALSE})
    \/ \E i \in Calls : CallDecryptReturned(i)
    \/ \E i \in Calls, k \in Threads : Lookup(i, k, FewResponses)
    \/ \E i \in Calls, k \in Threads : PutRead(i, k)
    \/ \E i \in Calls, k \in Threads : PutWrite(i, k)
    \/ \E i \in Calls : FlagWrite(i)
    \/ \E i \in Calls : Return(i)

SpecRound == Init /\ [][NextRound]_vars

\* key types that are not registered, and keys of such a type
Unregistered == KeyTypes \ wrapper_map
OtherKeys == { [k EXCEPT !.ktype = t] : k \in Candidates, t \in Unregistered }
\* keys a caller hands to delete_key
Deletions == { PubKey("k1", Provider_Trust, FALSE, FALSE), PrivKey("k2") }

\* every operation with a key type that is not registered, between imports,
\* gen_key, send_key, delete_key and get_key calls that fill the store and
\* the cache
NextTypes ==
    \/ \E i \in Calls : Quiet /\ CallPutRawKey(i, Imports)
    \/ \E i \in Calls : Quiet /\ CallGenKey(i, wrapper_map)
    \/ \E i \in Calls : Quiet /\ CallSendKey(i, wrapper_map)
    \/ \E i \in Calls : Quiet /\ CallDeleteKey(i, Deletions)
    \/ \E i \in Calls : Quiet /\ CallGetKey(i, {A1, A2} \X wrapper_map \X BOOLEAN \X BOOLEAN)
    \/ \E i \in Calls : Quiet /\ CallGetKey(i, {A1, A2} \X Unregistered \X BOOLEAN \X BOOLEAN)
    \/ \E i \in Calls : Quiet /\ CallPutKey(i, OtherKeys, {A1, A2})
    \/ \E i \in Calls : Quiet /\ CallPutRawKey(i, Raws \X Unregistered \X {A1, A2} \X Levels)
    \/ \E i \in Calls : Quiet /\ CallFetchKey(i, {A1, A2} \X FetchResponses \X Unregistered \X Levels)
    \/ \E i \in Calls : Quiet /\ CallGenKey(i, Unregistered)
    \/ \E i \in Calls : Quiet /\ CallSendKey(i, Unregistered)
    \/ \E i \in Calls : Quiet /\ CallDeleteKey(i, OtherKeys)
    \/ \E i \in Calls : Quiet /\ CallEncrypt(i, {Plain} \X {A1, A2} \X Unregistered \X {A1, A2, NoAddress} \X BOOLEAN)
    \/ \E i \in Calls : Quiet /\ CallDecrypt(i, Ciphertexts \X {A1, A2} \X Unregistered \X {A1, A2, NoAddress} \X BOOLEAN)
    \/ \E i \in Calls : Quiet /\ CallSign(i, {Plain} \X {A1, A2} \X Unregistered)
    \/ \E i \in Calls : Quiet /\ CallVerify(i, Signatures \X {A1, A2} \X Unregistered \X BOOLEAN)
    \/ \E i \in Calls, k \in Threads : Lookup(i, k, FewResponses)
    \/ \E i \in Calls, k \in Threads : PutRead(i, k)
    \/ \E i \in Calls, k \in Threads : PutWrite(i, k)
    \/ \E i \in Calls, k \in Threads : Requery(i, k)
    \/ \E i \in Calls : Generated(i)
    \/ \E i \in Calls : Deleted(i)
    \/ \E i \in Calls : Return(i)

SpecTypes == Init /\ [][NextTypes]_vars

\* get_key, imports and delete_key while time passes
NextTime ==
    \/ Tick
    \/ \E i \in Calls : Quiet /\ CallGetKey(i, {A1, A2} \X wrapper_map \X BOOLEAN \X BOOLEAN)
    \/ \E i \in Calls : Quiet /\ CallPutRawKey(i, Imports)
    \/ \E i \in Calls : Quiet /\ CallDeleteKey(i, Deletions)
    \/ \E i \in Calls, k \in Threads : Lookup(i, k, FewResponses)
    \/ \E i \in Calls, k \in Threads : PutRead(i, k)
    \/ \E i \in Calls, k \in Threads : PutWrite(i, k)
    \/ \E i \in Calls, k \in Threads : Requery(i, k)
    \/ \E i \in Calls : Deleted(i)
    \/ \E i \in Calls : Return(i)

SpecTime == Init /\ [][NextTime]_vars

\* put_key calls of several callers, overlapping
NextPut ==
    \/ \E i \in Calls : CallPutKey(i, PublicCandidates, {A1, A2})
    \/ \E i \in Calls, k \in Threads : PutRead(i, k)
    \/ \E i \in Calls, k \in Threads : PutWrite(i, k)
    \/ \E i \in Calls : Return(i)

SpecPut == Init /\ [][NextPut]_vars

\* key material handed to put_raw_key by overlapping callers
RawInputs ==
    { [id |-> "k1", secret |-> TRUE], [id |-> "k2", secret |-> TRUE] }
        \X wrapper_map \X {A1, A2} \X {Weak_Chain}

\* put_raw_key, fetch_key and put_key calls of several callers, overlapping
NextRaw ==
    \/ \E i \in Calls : CallPutRawKey(i, RawInputs)
    \/ \E i \in Calls : CallFetchKey(i, {A1} \X {Http(200, TRUE, [id |-> "k1", secret |-> TRUE])} \X wrapper_map \X {Weak_Chain})
    \/ \E i \in Calls : CallPutKey(i, {PubKey("k1", Provider_Trust, FALSE, FALSE)}, {A1})
    \/ \E i \in Calls, k \in Threads : PutRead(i, k)
    \/ \E i \in Calls, k \in Threads : PutWrite(i, k)
    \/ \E i \in Calls : Return(i)

SpecRaw == Init /\ [][NextRaw]_vars

\* answers of the nickserver to overlapping lookups
ConcResponses ==
    {Http(404, FALSE, Garbage), Http(200, TRUE, [id |-> "k1", secret |-> FALSE]),
     Http(200, TRUE, [id |-> "k2", secret |-> FALSE])}

\* get_key and put_key calls of several callers, overlapping
NextConc ==
    \/ \E i \in Calls : CallGetKey(i, {A1, A2, A4} \X wrapper_map \X {FALSE} \X {TRUE})
    \/ \E i \in Calls : CallPutKey(i, {PubKey("k2", Provider_Trust, FALSE, FALSE)}, {A2})
    \/ \E i \in Calls, k \in Threads : Lookup(i, k, ConcResponses)
    \/ \E i \in Calls, k \in Threads : PutRead(i, k)
    \/ \E i \in Calls, k \in Threads : PutWrite(i, k)
    \/ \E i \in Calls, k \in Threads : Requery(i, k)
    \/ \E i \in Calls : Return(i)

SpecConc == Init /\ [][NextConc]_vars

-----------------------------------------------------------------------------
(* Claims *)

\* the public key stored for address a in the store st has the flag
\* encr_used
EncrUsed(st, a) == st[<<a, FALSE>>] # NoKey /\ st[<<a, FALSE>>].encr_used

\* what get_key(address, private=private, fetch_remote=False) returns when
\* it is called on the store st
get_key_local(st, address, private) ==
    IF Failed(scheme_get_key(st, address, private))
    THEN key_not_found(get_key(NewCall("get_key", address, "OpenPGPKey", private, FALSE, NoAddress, NoKey, NoData, st, {}),
                               1, address, "OpenPGPKey", private, FALSE),
                       1, scheme_get_key(st, address, private)).th[1].res
    ELSE scheme_get_key(st, address, private)

\* C1: the validation level of the public key stored for an address never
\* decreases, whatever call writes the store.
C1_LevelNeverDecreases ==
    [][\A a \in Addresses :
         (store[<<a, FALSE>>] # NoKey /\ store'[<<a, FALSE>>] # NoKey)
           => store'[<<a, FALSE>>].validation >= store[<<a, FALSE>>].validation]_vars

\* a put_key call of a public Weak_Chain candidate for an address it owns,
\* made when a Provider_Trust public key was stored for the address, has
\* ended
C2_Case(i) ==
    /\ calls[i].pc = "done"
    /\ calls[i].op = "put_key"
    /\ calls[i].ktype \in wrapper_map
    /\ ~ calls[i].private
    /\ calls[i].address \in calls[i].key.address
    /\ calls[i].key.validation = Weak_Chain
    /\ calls[i].before[<<calls[i].address, FALSE>>] # NoKey
    /\ calls[i].before[<<calls[i].address, FALSE>>].validation = Provider_Trust

\* C2: put_key of a public Weak_Chain candidate for an address whose stored
\* public key has Provider_Trust fails with KeyNotValidUpgrade and leaves
\* the store exactly as it was.
C2_DowngradeRejected ==
    \A i \in Calls :
      C2_Case(i) => /\ calls[i].res = Fail("KeyNotValidUpgrade", calls[i].address)
                    /\ calls[i].writes = 0
                    /\ store = calls[i].before

C2_Witness ==
    \E i \in Calls : C2_Case(i) /\ calls[i].res.kind = "KeyNotValidUpgrade"

\* a put_key call of a key for an address the key owns has ended
C3_Case(i) ==
    /\ calls[i].pc = "done"
    /\ calls[i].op = "put_key"
    /\ calls[i].ktype \in wrapper_map
    /\ calls[i].address \in calls[i].key.address

\* get_key(a, private=k.private, fetch_remote=False) after the call i
\* returns a key with the identifier and the material of the key of the call
C3_Returned(i) ==
    /\ ~ Failed(get_key_local(store, calls[i].address, calls[i].private))
    /\ get_key_local(store, calls[i].address, calls[i].private).key.key_id = calls[i].key.key_id
    /\ get_key_local(store, calls[i].address, calls[i].private).key.key_data = calls[i].key.key_data

\* C3 as stated: after any put_key(k, a) with a among the addresses of k, a
\* local get_key(a) returns a key with the identifier and material of k.
C3_PutThenGet_AsStated ==
    \A i \in Calls : C3_Case(i) => C3_Returned(i)

\* C3: after a put_key(k, a) that succeeded, with a among the addresses of
\* k, a local get_key(a) returns a key with the identifier and material of
\* k.
C3_PutThenGet ==
    \A i \in Calls : (C3_Case(i) /\ ~ Failed(calls[i].res)) => C3_Returned(i)

C3_Witness ==
    \E i \in Calls :
      /\ C3_Case(i)
      /\ ~ Failed(calls[i].res)
      /\ calls[i].before[<<calls[i].address, calls[i].private>>] # NoKey
      /\ calls[i].before[<<calls[i].address, calls[i].private>>].key_id # calls[i].key.key_id

\* a put_key call of a key for an address that is not among the addresses
\* of the key has ended
C4_Case(i) ==
    /\ calls[i].pc = "done"
    /\ calls[i].op = "put_key"
    /\ calls[i].ktype \in wrapper_map
    /\ calls[i].address \notin calls[i].key.address

\* C4: put_key(k, a) with a not among the addresses of k fails with
\* KeyAddressMismatch without reading or writing the store, which is
\* unchanged.
C4_MismatchBeforeStore ==
    \A i \in Calls :
      C4_Case(i) => /\ calls[i].res = Fail("KeyAddressMismatch", calls[i].address)
                    /\ calls[i].reads = 0
                    /\ calls[i].writes = 0
                    /\ store = calls[i].before

C4_Witness ==
    \E i \in Calls : C4_Case(i) /\ calls[i].before # EmptyStore /\ calls[i].res.kind = "KeyAddressMismatch"

\* C5: decrypt with the private key of address stored and no public key
\* resolvable for verify returns (plaintext, KeyNotFound(verify)); decrypt
\* with no private key stored for address fails with KeyNotFound, whether
\* or not the verify key resolves.  For calls that ran alone.
C5_DecryptMissingKeys ==
    \A i \in Calls :
      (calls[i].pc = "done" /\ calls[i].op = "decrypt" /\ calls[i].other # NoAddress /\ calls[i].alone)
        => /\ (/\ scheme_decrypt_ok(calls[i].data, calls[i].before[<<calls[i].address, TRUE>>])
               /\ calls[i].before[<<calls[i].other, FALSE>>] = NoKey
               /\ store[<<calls[i].other, FALSE>>] = NoKey)
               => /\ ~ Failed(calls[i].res)
                  /\ calls[i].res.data.plain = calls[i].data.plain
                  /\ calls[i].res.sig = "KeyNotFound"
                  /\ calls[i].res.arg = calls[i].other
           /\ calls[i].before[<<calls[i].address, TRUE>>] = NoKey
               => calls[i].res = Fail("KeyNotFound", calls[i].address)

\* C6: two overlapping get_key calls (public, fetch_remote) for the same
\* address, which is not in the store, make at most one request between
\* them and end with the same outcome.
C6_Coalesced ==
    \A i \in Calls, j \in Calls :
      (/\ i # j
       /\ calls[i].pc = "done" /\ calls[i].op = "get_key"
       /\ calls[j].pc = "done" /\ calls[j].op = "get_key"
       /\ calls[i].address = calls[j].address
       /\ i \in calls[j].during
       /\ calls[i].miss /\ calls[j].miss)
        => /\ calls[i].reqs + calls[j].reqs <= 1
           /\ calls[i].res = calls[j].res

\* a get_key call whose remote resolution stored a key has ended
C7_Case(i) ==
    /\ calls[i].pc = "done"
    /\ calls[i].op = "get_key"
    /\ calls[i].writes >= 1
    /\ store[<<calls[i].address, FALSE>>] # NoKey

\* C7: the key that remote resolution stores has Provider_Trust exactly
\* when the domain of the address is, character for character, the host of
\* the nickserver URI, and Weak_Chain otherwise.
C7_LevelByDomain ==
    \A i \in Calls :
      C7_Case(i) => /\ store[<<calls[i].address, FALSE>>].validation \in Levels
                    /\ store[<<calls[i].address, FALSE>>].validation = Provider_Trust
                         <=> _split_email(calls[i].address)[2] = nickserver_uri.host

\* an encrypt call with fetch_remote=False for an address without a stored
\* public key, which ran alone, has ended
C8_Case(i) ==
    /\ calls[i].pc = "done"
    /\ calls[i].op = "encrypt"
    /\ calls[i].alone
    /\ ~ calls[i].fetch_remote
    /\ calls[i].before[<<calls[i].address, FALSE>>] = NoKey

\* C8: encrypt(fetch_remote=False) for an address with no public key in the
\* store fails with KeyNotFound, makes no request, never calls the engine
\* and leaves the store unchanged.
C8_EncryptLocalMiss ==
    \A i \in Calls :
      C8_Case(i) => /\ calls[i].res.kind = "KeyNotFound"
                    /\ calls[i].reqs = 0
                    /\ calls[i].eng = 0
                    /\ calls[i].writes = 0
                    /\ store = calls[i].before

C8_Witness ==
    \E i \in Calls : C8_Case(i) /\ calls[i].other # NoAddress /\ calls[i].before[<<calls[i].other, TRUE>>] # NoKey

\* C9: a resolution with private=True never makes a request, whatever
\* fetch_remote says, and fails with KeyNotFound on a local miss: in
\* get_key and in the private-key resolutions of sign, decrypt and encrypt.
C9_PrivateNeverRemote ==
    \A i \in Calls :
      /\ calls[i].preqs = 0
      /\ \A k \in Threads :
           calls[i].th[k].private
             => /\ calls[i].th[k].pc \in {"lookup", "done"}
                /\ (calls[i].th[k].pc = "done" /\ Failed(calls[i].th[k].res))
                     => calls[i].th[k].res = Fail("KeyNotFound", calls[i].th[k].address)
      /\ (calls[i].pc = "done" /\ calls[i].op \in {"get_key", "sign"} /\ calls[i].private /\ calls[i].ktype \in wrapper_map)
           => /\ calls[i].reqs = 0
              /\ calls[i].miss => calls[i].res = Fail("KeyNotFound", calls[i].address)

C9_Witness ==
    \E i \in Calls :
      /\ calls[i].pc = "done" /\ calls[i].op = "get_key"
      /\ calls[i].private /\ calls[i].fetch_remote
      /\ calls[i].miss
      /\ calls[i].res.kind = "KeyNotFound"

\* C10: remote resolution never writes a private key: the private keys in
\* the store are the same before and after a get_key call.
C10_NoPrivateKeyFromDirectory ==
    \A i \in Calls :
      (calls[i].pc = "done" /\ calls[i].op = "get_key")
        => \A a \in Addresses : store[<<a, TRUE>>] = calls[i].before[<<a, TRUE>>]

\* C11: every operation called with a key type that is not registered fails
\* with UnsupportedKeyTypeError before any store access, request or engine
\* call, and leaves store and cache unchanged.
C11_UnsupportedKeyType ==
    [][\A i \in Calls :
         (calls[i].pc = "idle" /\ calls'[i].pc # "idle" /\ calls'[i].ktype \notin wrapper_map)
           => /\ calls'[i].pc = "done"
              /\ calls'[i].res = Fail("UnsupportedKeyTypeError", NoAddress)
              /\ calls'[i].reads = 0
              /\ calls'[i].writes = 0
              /\ calls'[i].reqs = 0
              /\ calls'[i].eng = 0
              /\ store' = store
              /\ cache' = cache
              /\ dfr' = dfr
              /\ nreq' = nreq]_vars

C11_Witness ==
    \E i \in Calls :
      /\ calls[i].pc = "done"
      /\ calls[i].op = "decrypt"
      /\ calls[i].ktype \notin wrapper_map
      /\ calls[i].res.kind = "UnsupportedKeyTypeError"
      /\ store # EmptyStore
      /\ cache # EmptyCache

\* C12: in an encrypt or decrypt call the engine runs only after both
\* resolutions have ended, and never when a required key failed to resolve.
C12_EngineAfterJoin ==
    \A i \in Calls :
      (calls[i].op \in {"encrypt", "decrypt"} /\ calls[i].eng > 0)
        => /\ calls[i].eng = 1
           /\ calls[i].th[1].pc \in {"none", "flag_write", "done"}
           /\ calls[i].th[2].pc \in {"none", "done"}
           /\ ~ Failed(calls[i].th[1].res)
           /\ ~ Failed(calls[i].th[2].res)
           /\ calls[i].op = "encrypt" => calls[i].th[1].res.key # NoKey
           /\ (calls[i].op = "encrypt" /\ calls[i].other # NoAddress) => calls[i].th[2].res.key # NoKey
           /\ calls[i].op = "decrypt" => calls[i].th[2].res.key # NoKey

C12_Witness ==
    \E i \in Calls :
      /\ calls[i].op = "encrypt"
      /\ calls[i].other # NoAddress
      /\ calls[i].eng = 1
      /\ calls[i].reqs = 1
      /\ calls[i].th[1].pc = "flag_write"

\* C13: when both resolutions of encrypt(address, sign=s) fail, the caller
\* gets the failure of the resolution of the recipient's public key, under
\* every completion order.
C13_RecipientFailureSurfaced ==
    \A i \in Calls :
      (/\ calls[i].pc = "done" /\ calls[i].op = "encrypt"
       /\ calls[i].other # NoAddress
       /\ Failed(calls[i].th[1].res) /\ Failed(calls[i].th[2].res))
        => calls[i].res = calls[i].th[1].res

\* C14: in decrypt(address, verify=v) with the private key of address
\* stored, no failure of the resolution of v aborts the call: the plaintext
\* is returned.  For calls that ran alone.
C14_VerifyKeyNeverFatal ==
    \A i \in Calls :
      (/\ calls[i].pc = "done" /\ calls[i].op = "decrypt" /\ calls[i].alone
       /\ calls[i].other # NoAddress
       /\ scheme_decrypt_ok(calls[i].data, calls[i].before[<<calls[i].address, TRUE>>])
       /\ scheme_decrypt_ok(calls[i].data, store[<<calls[i].address, TRUE>>]))
        => /\ ~ Failed(calls[i].res)
           /\ calls[i].res.data.plain = calls[i].data.plain

\* C15: when encrypt delivers the ciphertext, the public key stored for
\* address has encr_used set; a failed encrypt sets the flag on no stored
\* key.
C15_EncryptionUsed ==
    [][\A i \in Calls :
         (calls'[i].pc = "done" /\ calls'[i].op = "encrypt" /\ calls'[i].ktype \in wrapper_map)
           => /\ (calls[i].pc = "run" /\ ~ Failed(calls'[i].res))
                   => (calls'[i].writes >= 1 /\ EncrUsed(store', calls'[i].address))
              /\ Failed(calls'[i].res)
                   => \A a \in Addresses : EncrUsed(store', a) => EncrUsed(calls'[i].before, a)]_vars

C15_Witness ==
    \E i \in Calls :
      /\ calls[i].pc = "done" /\ calls[i].op = "encrypt"
      /\ ~ Failed(calls[i].res)
      /\ ~ EncrUsed(calls[i].before, calls[i].address)
      /\ EncrUsed(store, calls[i].address)

\* C16: when decrypt returns (plaintext, key), the key is the public key
\* resolved for verify and the entry of verify holds it with sign_used set.
\* For calls that ran alone.
C16_SignatureUsedForVerify ==
    \A i \in Calls :
      (calls[i].pc = "done" /\ calls[i].op = "decrypt" /\ calls[i].res.sig = "key" /\ calls[i].alone)
        => /\ calls[i].res.key.sign_used
           /\ calls[i].res.key.key_id = calls[i].th[1].res.key.key_id
           /\ store[<<calls[i].other, FALSE>>] = calls[i].res.key

\* a verify call that resolved the key has ended
C17_Case(i) ==
    /\ calls[i].pc = "done"
    /\ calls[i].op = "verify"
    /\ calls[i].ktype \in wrapper_map
    /\ ~ Failed(calls[i].th[1].res)

\* the verify call i returned the key, and the key stored for address is
\* that key with sign_used set
C17_Valid(i) ==
    /\ ~ Failed(calls[i].res)
    /\ calls[i].res.key.key_id = calls[i].th[1].res.key.key_id
    /\ calls[i].res.key.sign_used
    /\ store[<<calls[i].address, FALSE>>] = calls[i].res.key

\* C17 as stated: a verify whose signature does not verify fails with
\* InvalidSignature naming the key and leaves the store unchanged; one whose
\* signature verifies returns the key, stored with sign_used set.
C17_Verify_AsStated ==
    \A i \in Calls :
      C17_Case(i)
        => IF scheme_verify(calls[i].data, calls[i].th[1].res.key)
           THEN C17_Valid(i)
           ELSE /\ calls[i].res = Fail("InvalidSignature", <<calls[i].th[1].res.key.key_id>>)
                /\ store = calls[i].before

\* C17: a verify whose signature does not verify fails with
\* InvalidSignature naming the key and sets sign_used on no stored key: the
\* store is unchanged when the key was found locally and differs otherwise
\* only in the entries of address, which hold what the directory returned
\* during the call; one whose signature verifies returns the key, stored
\* with sign_used set.
C17_Verify ==
    \A i \in Calls :
      C17_Case(i)
        => IF scheme_verify(calls[i].data, calls[i].th[1].res.key)
           THEN C17_Valid(i)
           ELSE /\ calls[i].res = Fail("InvalidSignature", <<calls[i].th[1].res.key.key_id>>)
                /\ ~ calls[i].miss => store = calls[i].before
                /\ \A e \in DOMAIN store :
                     store[e] # calls[i].before[e]
                       => /\ e[1] = calls[i].address
                          /\ calls[i].reqs = 1
                          /\ store[e] = IF e[2] THEN parse_ascii_key(calls[i].resp.raw).priv
                                        ELSE [parse_ascii_key(calls[i].resp.raw).pub EXCEPT
                                                !.validation = validation_level(nickserver_uri, calls[i].address)]
                          /\ ~ store[e].sign_used

C17_Witness ==
    \E i \in Calls :
      /\ C17_Case(i)
      /\ ~ scheme_verify(calls[i].data, calls[i].th[1].res.key)
      /\ calls[i].reqs = 1
      /\ calls[i].res.kind = "InvalidSignature"
      /\ store # calls[i].before

\* a decrypt call of what encrypt(data, addr, sign=self) returned, made with
\* verify=self when addr and self had a public and a private key stored, has
\* ended
C18_Case(i) ==
    /\ calls[i].pc = "done"
    /\ calls[i].op = "decrypt"
    /\ calls[i].plain # "none"
    /\ \A a \in {calls[i].address, calls[i].other}, p \in BOOLEAN : calls[i].before[<<a, p>>] # NoKey

\* the two keys stored for address a in st are the halves of one key
Matching(st, a) == st[<<a, FALSE>>].key_id = st[<<a, TRUE>>].key_id

\* the decrypt call i returned the data and the key of self
C18_Returned(i) ==
    /\ ~ Failed(calls[i].res)
    /\ calls[i].res.data.plain = calls[i].plain
    /\ calls[i].res.sig = "key"
    /\ calls[i].res.key.key_id = calls[i].before[<<calls[i].other, FALSE>>].key_id

\* C18 as stated: for addr and self with a public and a private key stored,
\* decrypt(encrypt(data, addr, sign=self), addr, verify=self) returns
\* (data, k) with k the key of self.
C18_RoundTrip_AsStated ==
    \A i \in Calls : C18_Case(i) => C18_Returned(i)

\* C18: for addr and self that each have the two halves of one key stored,
\* decrypt(encrypt(data, addr, sign=self), addr, verify=self) returns
\* (data, k) with k the key of self.
C18_RoundTrip ==
    \A i \in Calls :
      (C18_Case(i) /\ Matching(calls[i].before, calls[i].address) /\ Matching(calls[i].before, calls[i].other))
        => C18_Returned(i)

C18_Witness ==
    \E i \in Calls :
      /\ C18_Case(i)
      /\ Matching(calls[i].before, calls[i].address)
      /\ Matching(calls[i].before, calls[i].other)
      /\ calls[i].address # calls[i].other
      /\ calls[i].res.sig = "key"

\* the answer resp of the nickserver holds no key
Keyless(resp) ==
    \/ resp.kind = "error"
    \/ resp.status >= 400
    \/ ~ resp.has
    \/ parse_ascii_key(resp.raw).pub = NoKey

\* a get_key call that asked the nickserver and got an answer without a key
\* has ended
C19_Case(i) ==
    /\ calls[i].pc = "done"
    /\ calls[i].op = "get_key"
    /\ calls[i].reqs >= 1
    /\ Keyless(calls[i].resp)

\* C19: when the request made for get_key ends in a 404, another error
\* status, a transport error or an answer without a key, get_key fails with
\* KeyNotFound, the store is unchanged and exactly one request was made.
C19_DirectoryMiss ==
    \A i \in Calls :
      C19_Case(i) => /\ calls[i].res.kind = "KeyNotFound"
                     /\ calls[i].reqs = 1
                     /\ calls[i].writes = 0
                     /\ store = calls[i].before

C19_Witness ==
    \E i \in Calls :
      /\ C19_Case(i)
      /\ calls[i].resp.kind = "error"
      /\ calls[i].before # EmptyStore
      /\ calls[i].res.kind = "KeyNotFound"

\* the key that the remote resolution of call i hands to the write path:
\* the public key of the directory's material, with the level of the address
C20_Key(c) ==
    [parse_ascii_key(c.resp.raw).pub EXCEPT
       !.validation = validation_level(nickserver_uri, c.address)]

\* the step is a turn of the get_key call i in which the write path refuses
\* the directory's key.  Either the turn answers the first lookup with a
\* miss, the nickserver is asked and answers with a key that does not own
\* the address: put_key is called (the address has a domain to take the
\* level from) and fails before it reads the store.  Or the turn answers
\* the lookup of the old key and the policy rejects the directory's key
\* against the key stored by now.
C20_Case(i) ==
    /\ calls[i].op = "get_key"
    /\ calls[i].pc = "run"
    /\ _split_email(calls[i].address) # NoSplit
    /\ \/ /\ calls[i].th[1].pc = "lookup"
          /\ calls'[i].th[1].pc # "lookup"
          /\ calls'[i].reqs = calls[i].reqs + 1
          /\ ~ Keyless(calls'[i].resp)
          /\ calls[i].address \notin C20_Key(calls'[i]).address
       \/ /\ calls[i].th[1].pc = "put_read"
          /\ calls'[i].th[1].pc # "put_read"
          /\ calls[i].writes = 0
          /\ ~ can_upgrade(C20_Key(calls[i]), store[<<calls[i].address, FALSE>>])

\* the failure of the write path for the call c
C20_Refusal(c) ==
    IF c.address \notin C20_Key(c).address
    THEN Fail("KeyAddressMismatch", c.address)
    ELSE Fail("KeyNotValidUpgrade", c.address)

\* C20: when the write path refuses the key that the directory returned
\* (the key does not own the requested address, or the upgrade policy
\* rejects it against the key that another call has stored meanwhile), the
\* Deferred of the get_key that asked the directory fires in that turn with
\* the failure of the write path, the turn leaves the store unchanged and
\* the call has written nothing.
C20_PersistenceFailure ==
    [][\A i \in Calls :
         C20_Case(i) => /\ calls'[i].pc = "done"
                        /\ calls'[i].res = C20_Refusal(calls'[i])
                        /\ calls'[i].writes = 0
                        /\ store' = store]_vars

\* both refusals have happened: one get_key has failed with
\* KeyNotValidUpgrade for a key that owns its address, another with
\* KeyAddressMismatch, each after its own request and without a write
C20_Witness ==
    \E i \in Calls, j \in Calls :
      /\ calls[i].pc = "done" /\ calls[i].op = "get_key"
      /\ calls[i].reqs = 1 /\ calls[i].writes = 0
      /\ calls[i].res = Fail("KeyNotValidUpgrade", calls[i].address)
      /\ calls[i].address \in C20_Key(calls[i]).address
      /\ store[<<calls[i].address, FALSE>>].validation = Provider_Trust
      /\ calls[j].pc = "done" /\ calls[j].op = "get_key"
      /\ calls[j].reqs = 1 /\ calls[j].writes = 0
      /\ calls[j].res = Fail("KeyAddressMismatch", calls[j].address)
      /\ calls[j].address \notin C20_Key(calls[j]).address

\* the cache of _fetch_keys_from_server holds an entry for address a that is
\* younger than 300 seconds
InWindow(a) == cache[a] # NoTs /\ now - cache[a] < Invalidation

\* the step is the answer to the first lookup of thread k of call i, a
\* public lookup with fetch_remote that misses: a remote resolution starts
C21_Resolves(i, k) ==
    /\ calls[i].pc # "idle"
    /\ calls[i].th[k].pc = "lookup"
    /\ calls'[i].th[k].pc # "lookup"
    /\ calls[i].th[k].fetch_remote
    /\ ~ calls[i].th[k].private
    /\ store[<<calls[i].th[k].address, FALSE>>] = NoKey

\* C21: a remote resolution for an address within 300 seconds of the one
\* before makes no request, whatever was written to or deleted from the
\* store in between; the first one after the window makes a new request.
C21_CacheWindow ==
    [][\A i \in Calls, k \in Threads :
         C21_Resolves(i, k)
           => IF InWindow(calls[i].th[k].address)
              THEN nreq' = nreq /\ cache' = cache /\ calls'[i].reqs = 0
              ELSE /\ nreq' = [nreq EXCEPT ![calls[i].th[k].address] = @ + 1]
                   /\ cache' = [cache EXCEPT ![calls[i].th[k].address] = now]
                   /\ calls'[i].reqs = 1]_vars

C21_Witness ==
    \E i \in Calls :
      /\ calls[i].pc = "done" /\ calls[i].op = "get_key"
      /\ calls[i].miss /\ calls[i].fetch_remote /\ ~ calls[i].private
      /\ calls[i].reqs = 0
      /\ nreq[calls[i].address] = 2
      /\ now - cache[calls[i].address] = TickStep

\* C22: put_raw_key of material with a public and a private key writes the
\* public key first and starts on the private key only when the public
\* put_key has succeeded: a call whose public put_key fails stores neither
\* key, and the private key is never written before the public one.
C22_PublicBeforePrivate ==
    \A i \in Calls :
      calls[i].op = "put_raw_key"
        => /\ \A k \in Threads :
                (calls[i].th[k].pc \in {"put_read", "put_write"} /\ calls[i].th[k].key.private)
                  => (calls[i].writes = 1 /\ calls[i].th[k].next = NoKey)
           /\ (calls[i].pc = "done" /\ Failed(calls[i].res))
                => (calls[i].writes = 0 /\ calls[i].res.kind \in {"KeyAddressMismatch", "KeyNotValidUpgrade"})
           /\ (calls[i].pc = "done" /\ ~ Failed(calls[i].res))
                => calls[i].writes = IF calls[i].private THEN 2 ELSE 1

C22_Witness ==
    \E i \in Calls :
      /\ calls[i].pc = "done" /\ calls[i].op = "put_raw_key"
      /\ calls[i].private
      /\ calls[i].res.kind = "KeyNotValidUpgrade"
      /\ calls[i].before = EmptyStore
      /\ store[<<calls[i].address, TRUE>>] = NoKey

\* C23: fetch_key fails with KeyNotFound(uri) and leaves the store
\* unchanged whenever the request did not succeed or the content holds no
\* public key; otherwise it stores only the public key, through put_key,
\* and never a private key.
C23_FetchKey ==
    \A i \in Calls :
      (calls[i].pc = "done" /\ calls[i].op = "fetch_key" /\ calls[i].ktype \in wrapper_map)
        => IF Keyless(calls[i].resp)
           THEN calls[i].res = Fail("KeyNotFound", UriText) /\ store = calls[i].before
           ELSE /\ \A e \in DOMAIN store :
                     store[e] # calls[i].before[e]
                       => (e = <<calls[i].address, FALSE>> /\ ~ Failed(calls[i].res))
                /\ calls[i].address \notin parse_ascii_key(calls[i].resp.raw).pub.address
                     => calls[i].res = Fail("KeyAddressMismatch", calls[i].address)

\* a get_key call (public, fetch_remote) that missed in the store and
\* succeeded has ended
C24_Case(i) ==
    /\ calls[i].pc = "done"
    /\ calls[i].op = "get_key"
    /\ ~ calls[i].private
    /\ calls[i].fetch_remote
    /\ calls[i].miss
    /\ ~ Failed(calls[i].res)

\* C24: the key that a get_key returned after a remote resolution is in
\* the store: a get_key(fetch_remote=False) that follows returns the same
\* key without a request.
C24_FetchedKeyIsLocal ==
    \A i \in Calls :
      C24_Case(i) => /\ calls[i].res.key # NoKey
                     /\ get_key_local(store, calls[i].address, FALSE) = calls[i].res

C24_Witness ==
    \E i \in Calls : C24_Case(i) /\ calls[i].reqs = 1 /\ calls[i].address = A2

\* C25: no put_key overwrites a stored public key of a higher validation
\* level than its candidate's, and a put_key that succeeded was permitted
\* by the policy against the key it replaced.
C25_AtomicUpgrade ==
    \A i \in Calls :
      (calls[i].op = "put_key" /\ calls[i].writes >= 1)
        => can_upgrade(calls[i].key, calls[i].replaced)

\* C26: decrypt(address, verify=v) with v different from address writes no
\* entry but the public key of v.  For calls that ran alone.
C26_DecryptFrame ==
    \A i \in Calls :
      (/\ calls[i].pc = "done" /\ calls[i].op = "decrypt" /\ calls[i].alone
       /\ calls[i].other # NoAddress
       /\ calls[i].other # calls[i].address)
        => \A e \in DOMAIN store :
             e # <<calls[i].other, FALSE>> => store[e] = calls[i].before[e]
=============================================================================
